---- MODULE Spec2Model ----
(***************************************************************************)
(* Model of full_data_wrapper.py: the table and graph translators, the     *)
(* SPARQL query interceptor installed around load_graph, and the run of    *)
(* main() from reading the request to process exit.                        *)
(*                                                                         *)
(* Python values: None is the empty tuple <<>> and a present optional      *)
(* value v is <<v>>, so that None never compares equal to 0 or to "".      *)
(***************************************************************************)
EXTENDS Integers, Sequences, FiniteSets, TLC

\* ---------------------------------------------------------------- bounds
MaxTriples == 5     \* triples of a graph handed to the translator harness
MaxLimit   == 4     \* largest limit handed to graph_to_json by the harness
MaxRows    == 2     \* rows of a prediction table
MaxCols    == 2     \* columns of a table handed to the translator harness
MaxLoads   == 1     \* graphs the engine loads in a run of main()
MaxCalls   == 1     \* query calls the engine makes in a run of main()
MaxCaptureLoads == 2    \* graphs the engine loads, interceptor studied alone
MaxCaptureCalls == 2    \* query calls it makes, interceptor studied alone
MaxSize    == 1     \* rows a query can return on a freshly loaded graph

\* ------------------------------------------------------- program constants
InitialLimit  == 100    \* graph_to_json(initial_graph, limit=100)
EnrichedLimit == 1000   \* graph_to_json(enriched_kg, limit=1000)
ExitFailure   == 1      \* sys.exit(1), and the interpreter's status for an
                        \* exception that leaves main() uncaught

None == <<>>
Some(v) == <<v>>
Min(a, b) == IF a <= b THEN a ELSE b
Range(f) == {f[k] : k \in DOMAIN f}

\* Python truthiness of an optional integer: None and 0 are falsy.
Truthy(limit) == limit # None /\ limit[1] # 0

\* --------------------------------------------------------------- RDF terms
\* A term is a URIRef, a BNode or a Literal.  Only a Literal has the
\* attributes datatype and language (each possibly None).
URIRef(v)        == [kind |-> "URIRef", value |-> v]
BNode(v)         == [kind |-> "BNode", value |-> v]
Literal(v, d, l) == [kind |-> "Literal", value |-> v, datatype |-> d, language |-> l]

\* str(term): the lexical form; datatype and language are dropped.
Str(term) == term.value

HasDatatypeSet(o) == "datatype" \in DOMAIN o /\ o.datatype # None

\* hasattr(o, 'datatype')
HasDatatypeAttr(o) == "datatype" \in DOMAIN o

\* The i-th triple of the enumeration graphs are built from.  The objects
\* cycle through a typed literal, a language-tagged literal, a plain
\* literal, a blank node and a URI.
TripleNo(i) ==
    [s |-> URIRef("http://ex/s" \o ToString(i)),
     p |-> URIRef("http://ex/p"),
     o |-> CASE i % 5 = 1 -> Literal("1", Some("xsd:int"), None)
             [] i % 5 = 2 -> Literal("hi", None, Some("en"))
             [] i % 5 = 3 -> Literal("plain", None, None)
             [] i % 5 = 4 -> BNode("b" \o ToString(i))
             [] OTHER     -> URIRef("http://ex/o")]

Namespaces == [pfx \in {"rdf", "ex"} |-> URIRef("http://ns/" \o pfx)]

\* A graph is its triples in enumeration order plus its prefix bindings.
\* GraphOf(idx) holds the triples numbered idx[1], idx[2], ... in that order;
\* MkGraph(n) is the graph holding the first n triples of the enumeration.
GraphOf(idx) ==
    [triples |-> [k \in 1..Len(idx) |-> TripleNo(idx[k])], namespaces |-> Namespaces]

MkGraph(n) == GraphOf([i \in 1..n |-> i])

\* ------------------------------------------------------------ graph_to_json
TripleToJson(t) ==
    [subject     |-> Str(t.s),
     predicate   |-> Str(t.p),
     object      |-> Str(t.o),
     object_type |-> IF HasDatatypeAttr(t.o) THEN "literal" ELSE "uri"]

BreaksAfter(limit, count) == Truthy(limit) /\ count > limit[1]

\* The test of line 75 after the count-th append: `limit and count >= limit`.
BreaksAt(limit, count) == Truthy(limit) /\ count >= limit[1]

\* The number of iterations the loop of lines 67-76 runs over n triples:
\* iteration i runs iff no earlier iteration took the break.
Iterations(n, limit) ==
    LET breaks == {i \in 1..n : BreaksAt(limit, i)}
    IN  IF breaks = {} THEN n
        ELSE CHOOSE i \in breaks : \A j \in breaks : i <= j

LimitedTo(limit) == IF Truthy(limit) THEN limit ELSE None

graph_to_json(graph, limit) ==
    [triples       |-> [i \in 1..Iterations(Len(graph.triples), limit) |->
                            TripleToJson(graph.triples[i])],
     total_triples |-> Len(graph.triples),
     namespaces    |-> [pfx \in DOMAIN graph.namespaces |-> Str(graph.namespaces[pfx])],
     limited_to    |-> LimitedTo(limit)]

\* --------------------------------------------------------- dataframe_to_json
\* A DataFrame is its column labels in order (a label may occur twice) and
\* its rows, each the tuple of its cells in column order.  A cell is a
\* Python str or a numpy int64 (kept as its decimal digits).
PyStr(v)   == [py |-> "str", v |-> v]
NpInt64(n) == [py |-> "int64", v |-> ToString(n)]

DfEmptyNoColumns(df) == Len(df.columns) = 0

\* df.empty holds when either axis has length 0.
DfEmpty(df) == Len(df.rows) = 0 \/ Len(df.columns) = 0

\* The position a label stands for in a dictionary keyed by label: where a
\* label occurs twice the later column overwrites the earlier one.
LastIndex(labels, c) ==
    CHOOSE k \in 1..Len(labels) :
        labels[k] = c /\ \A j \in (k + 1)..Len(labels) : labels[j] # c

\* One row of df.to_dict('records'): a dictionary from label to cell.
RowDict(labels, cells) == [c \in Range(labels) |-> cells[LastIndex(labels, c)]]

ShapeTransposed(df) == <<Len(df.columns), Len(df.rows)>>

\* list(df.shape): [row count, column count].
Shape(df) == <<Len(df.rows), Len(df.columns)>>

\* df.dtypes.astype(str).to_dict(): a column of int64 cells is "int64", any
\* other column "object".
Dtypes(df) ==
    [c \in Range(df.columns) |->
        IF \A k \in 1..Len(df.rows) : df.rows[k][LastIndex(df.columns, c)].py = "int64"
        THEN "int64" ELSE "object"]

dataframe_to_json(df) ==
    IF df = None \/ DfEmpty(df[1])
    THEN [columns |-> <<>>, data |-> <<>>, shape |-> <<0, 0>>]
    ELSE [columns |-> df[1].columns,
          data    |-> [i \in 1..Len(df[1].rows) |-> RowDict(df[1].columns, df[1].rows[i])],
          shape   |-> Shape(df[1]),
          dtypes  |-> Dtypes(df[1])]

\* ------------------------------------------------------------------- JSON
\* json.load: the parsed value of a document, None standing for the
\* JSONDecodeError raised on text that is not JSON.
JsonLoads(text) ==
    CASE text = "{}"          -> Some([type |-> "dict", items |-> {}])
      [] text = "{ \"kg\": 1 }" -> Some([type |-> "dict", items |-> {<<"kg", 1>>}])
      [] text = "[]"          -> Some([type |-> "list", items |-> {}])
      [] OTHER                -> None

\* json.dump of a parsed request: its compact text.
JsonDumps(value) ==
    CASE value.type = "list"  -> "[]"
      [] value.items = {}     -> "{}"
      [] OTHER                -> "{\"kg\": 1}"

\* json.dumps raises TypeError on a numpy int64.
CellSerializable(cell) == cell.py = "str"

\* ---------------------------------------------------- inputs of a run
\* What can arrive on the input stream: two JSON documents, a truncated
\* document and an empty stream.
StdinDocs == {"{}", "{ \"kg\": 1 }", "{ \"kg\": ", ""}

InitialSizes  == {0, 2}       \* triples of the graph parsed from rdf_data
EnrichedSizes == {3}          \* triples of the graph process_rules returns

\* Rows of the tables below, cells in the order of the table's columns.
SpoRow(i)   == <<PyStr("http://ex/s" \o ToString(i)), PyStr("http://ex/p"),
                 PyStr("http://ex/o" \o ToString(i))>>
RuleRow(i)  == <<PyStr("r" \o ToString(i))>> \o SpoRow(i)
CountRow(i) == SpoRow(i) \o <<NpInt64(i)>>
BodyRow(i)  == <<PyStr("h" \o ToString(i)), PyStr("b")>>

\* The tables process_rules can return: None, a table with no rows, tables
\* of subject/predicate/object rows with or without a further column, a
\* table with a numpy column and a table without a subject column.
Tables ==
    {None, Some([columns |-> <<"subject", "predicate", "object">>, rows |-> <<>>])}
    \cup {Some([columns |-> <<"subject", "predicate", "object">>,
                rows |-> [i \in 1..1 |-> SpoRow(i)]])}
    \cup {Some([columns |-> <<"rule", "subject", "predicate", "object">>,
                rows |-> [i \in 1..n |-> RuleRow(i)]]) : n \in 1..MaxRows}
    \cup {Some([columns |-> <<"subject", "predicate", "object", "support">>,
                rows |-> [i \in 1..1 |-> CountRow(i)]]),
          Some([columns |-> <<"head", "body">>, rows |-> [i \in 1..1 |-> BodyRow(i)]])}

\* ------------------------------------------------------------ query engine
\* The query objects the engine passes to Graph.query, with the text str()
\* gives for each.  A graph object is the number of triples it holds.
QueryObjects == {"q_all", "q_ask", "q_effect"}

QueryStr(q) ==
    CASE q = "q_all" -> "SELECT * WHERE { ?s ?p ?o }"
      [] q = "q_ask" -> "ASK { ?s ?p ?o }"
      [] OTHER       -> "SELECT * WHERE { ?s ?p ?o } # effect"

HasSideEffects(q) == q = "q_effect"

\* Rows the original Graph.query yields for q on a graph of `size` triples.
ResultRows(size, q) == IF q = "q_ask" THEN 1 ELSE size

\* The result sequence an execution of the original Graph.query returns:
\* lazy, not yet iterated.
original_query(size, q) == [rows |-> ResultRows(size, q), consumed |-> FALSE]

\* list(results): iterating the sequence to its end consumes it.
Consume(results) == [results EXCEPT !.consumed = TRUE]

\* The graph after the original Graph.query ran q on it.
SizeAfter(size, q) == IF HasSideEffects(q) THEN size + 1 ELSE size

Durations == {0, 1}           \* seconds an execution of a query takes

\* ------------------------------------------------------------------- state
VARIABLES
    pc,             \* position of main()
    stdin,          \* text on the input stream
    input_data,     \* the parsed request, or None
    temp_file,      \* the transient config file: created, exists, content
    removals,       \* times the finally clause of main() has run
    stdout,         \* the documents printed to the output stream
    exit_status,    \* None while running, then the process exit status
    exc,            \* the exception caught by `except Exception`, or None
    uncaught,       \* the exception that left main() uncaught, or None
    pending_exit,   \* the SystemExit raised by sys.exit(1), or None
    engine_calls,   \* capabilities invoked so far, in order
    load_graph,     \* Symbolic_predictions.load_graph: "original" or "patched"
    queries,        \* the capture log
    graphs,         \* the graph objects load_graph has returned
    call,           \* the frame of the current or last capturing_query call
    call_log,       \* every call of a graph's query method made, in order,
                    \* each marked with whether it reached the append
    executions,     \* every invocation of an original Graph.query, in order
    clock,          \* wall clock
    start_time,     \* start_time of main()
    initial_graph,  \* the Graph object main() parses rdf_data into, or None
    initial_graph_json,
    result_df,
    enriched_kg,
    output,         \* the success envelope assembled by main()
    fn_graph,       \* translator harness: the graph argument
    fn_limit,       \* translator harness: the limit argument
    fn_df,          \* translator harness: the table argument
    fn_out          \* translator harness: the result, or None

runVars == <<pc, stdin, input_data, temp_file, removals, stdout, exit_status, exc,
             uncaught, pending_exit, engine_calls, start_time,
             initial_graph, initial_graph_json,
             result_df, enriched_kg, output>>
capVars == <<load_graph, queries, graphs, call, call_log, executions, clock>>
fnVars  == <<fn_graph, fn_limit, fn_df, fn_out>>
vars    == <<runVars, capVars, fnVars>>

RunInit ==
    /\ pc = "install"
    /\ input_data = None
    /\ temp_file = [created |-> FALSE, exists |-> FALSE, content |-> None]
    /\ removals = 0
    /\ stdout = <<>>
    /\ exit_status = None
    /\ exc = None
    /\ uncaught = None
    /\ pending_exit = None
    /\ engine_calls = <<>>
    /\ load_graph = "original"
    /\ queries = <<>>
    /\ graphs = <<>>
    /\ call = None
    /\ call_log = <<>>
    /\ executions = <<>>
    /\ clock = 0
    /\ start_time = None
    /\ initial_graph = None
    /\ initial_graph_json = None
    /\ result_df = None
    /\ enriched_kg = None
    /\ output = None

FnIdle == fn_graph = None /\ fn_limit = None /\ fn_df = None /\ fn_out = None

Init == stdin \in StdinDocs /\ RunInit /\ FnIdle

\* -------------------------------------------------------------- exceptions
\* A raised Python exception: its class, str(e), and the place that raised
\* it (what the traceback names).
PyError(type, msg, origin) == [type |-> type, msg |-> msg, origin |-> origin]

\* traceback.format_exc() for the exception being handled.
FormatExc(e) == <<"Traceback (most recent call last)", e.origin, e.type, e.msg>>

\* The exception leaves main() uncaught: the interpreter reports it on the
\* error stream and the process ends with status 1.
Propagate(e) ==
    /\ uncaught' = Some(e)
    /\ exit_status' = Some(ExitFailure)
    /\ pc' = "exit"

RaiseInTryGoesOn(e) ==
    /\ exc' = Some(e)
    /\ pc' = "translate"

\* The exception is raised inside the try block of main().
RaiseInTry(e) ==
    /\ exc' = Some(e)
    /\ pc' = "except"

\* ------------------------------------------------- capture_sparql_queries
\* Lines 86-122: create the log, keep the original loader, install the
\* patched one.
Install ==
    /\ pc = "install"
    /\ queries' = <<>>
    /\ load_graph' = "patched"
    /\ pc' = "read"
    /\ UNCHANGED <<stdin, input_data, temp_file, removals, stdout, exit_status, exc,
                   uncaught, pending_exit, engine_calls, start_time,
                   initial_graph, initial_graph_json, result_df, enriched_kg, output>>
    /\ UNCHANGED <<graphs, call, call_log, executions, clock>>
    /\ UNCHANGED fnVars

\* No call of capturing_query is between its append and its return.
NoCallRunning == IF call = None THEN TRUE ELSE call[1].state \in {"returned", "raised"}

\* patched_load_graph, lines 92-119: the graph object the original loader
\* returned, with its query method replaced.
patched_load_graph(g) == [g EXCEPT !.query = "capturing"]

\* The engine calls Symbolic_predictions.load_graph while process_rules runs.
EngineLoadGraph ==
    /\ pc = "in_process"
    /\ NoCallRunning
    /\ engine_calls' = Append(engine_calls, "load_graph")
    /\ \/ \E size \in 0..MaxSize :
            LET g == [size |-> size, query |-> "original"]
            IN  /\ graphs' = Append(graphs,
                       IF load_graph = "patched" THEN patched_load_graph(g) ELSE g)
                /\ UNCHANGED <<pc, exc>>
       \/ /\ RaiseInTry(PyError("FileNotFoundError", "no such file", "load_graph"))
          /\ UNCHANGED graphs
    /\ UNCHANGED <<stdin, input_data, temp_file, removals, stdout, exit_status,
                   uncaught, pending_exit, start_time, initial_graph, initial_graph_json,
                   result_df, enriched_kg, output>>
    /\ UNCHANGED <<load_graph, queries, call, call_log, executions, clock>>
    /\ UNCHANGED fnVars

\* An exception leaves capturing_query: the engine either handles it and
\* goes on, or lets it end process_rules.
QueryRaises(e) ==
    \/ UNCHANGED <<pc, exc>>
    \/ RaiseInTry(e)

\* One invocation of the original Graph.query (lines 103 and 116) as the
\* history keeps it: the graph and the query argument, the call of
\* capturing_query that made it, the length of the log at that moment and
\* the rows of the result it returned (None when it raised or its rows
\* were not delivered in full).
Invocation(g, q, call_no, rows) ==
    [graph |-> g, query |-> q, call |-> call_no, log_len |-> Len(queries), rows |-> rows]

\* The record appended at lines 108-113; len_results is len(results_list).
QueryRecord(query_str, started, now, len_results) ==
    [query          |-> query_str,
     execution_time |-> now - started,
     result_count   |-> len_results,
     timestamp      |-> now]

LogAppendFront(log, record) == <<record>> \o log

LogKeepLast(log, record) == <<record>>

LogAfterRaiseRecorded(log) ==
    Append(log, [query |-> "", execution_time |-> 0, result_count |-> 0, timestamp |-> 0])

\* The log after line 103 or line 106 raised: capturing_query has no
\* handler, the exception leaves it before line 108 is reached.
LogAfterRaise(log) == log

\* queries.append(record), line 108.
LogAppend(log, record) == Append(log, record)

\* capturing_query, lines 99-113: the first execution, its materialisation
\* and the append.  g indexes the graph whose query method is called, d is
\* the time the execution and the materialisation take.
CapturingQueryFirst(g, q, d) ==
    /\ pc = "in_process"
    /\ NoCallRunning
    /\ g \in 1..Len(graphs)
    /\ graphs[g].query = "capturing"
    /\ \/ \* original_query raises
          /\ call_log' = Append(call_log, [graph |-> g, query |-> q, recorded |-> FALSE,
                                            outcome |-> "raised_first"])
          /\ executions' = Append(executions, Invocation(g, q, Len(call_log) + 1, None))
          /\ call' = Some([graph |-> g, query |-> q, state |-> "raised",
                           results |-> None, result |-> None])
          /\ QueryRaises(PyError("ParseException", "bad query", "original_query"))
          /\ queries' = LogAfterRaise(queries)
          /\ UNCHANGED <<graphs, clock>>
       \/ \* list(results) raises while the rows are produced
          /\ call_log' = Append(call_log, [graph |-> g, query |-> q, recorded |-> FALSE,
                                            outcome |-> "raised_first"])
          /\ executions' = Append(executions, Invocation(g, q, Len(call_log) + 1, None))
          /\ graphs' = [graphs EXCEPT ![g].size = SizeAfter(@, q)]
          /\ call' = Some([graph |-> g, query |-> q, state |-> "raised",
                           results |-> None, result |-> None])
          /\ QueryRaises(PyError("TypeError", "bad operand", "list(results)"))
          /\ queries' = LogAfterRaise(queries)
          /\ UNCHANGED clock
       \/  LET query_str  == QueryStr(q)
                started    == clock
                results    == original_query(graphs[g].size, q)
                now        == clock + d
            IN  /\ call_log' = Append(call_log,
                                       [graph |-> g, query |-> q, recorded |-> TRUE,
                                        outcome |-> "running"])
                /\ executions' = Append(executions,
                       Invocation(g, q, Len(call_log) + 1, Some(results.rows)))
                /\ graphs' = [graphs EXCEPT ![g].size = SizeAfter(@, q)]
                /\ queries' = LogAppend(queries,
                       QueryRecord(query_str, started, now, results.rows))
                /\ clock' = now
                /\ call' = Some([graph |-> g, query |-> q, state |-> "reexec",
                                 results |-> Some(Consume(results)), result |-> None])
                /\ UNCHANGED <<pc, exc>>
    /\ UNCHANGED <<stdin, input_data, temp_file, removals, stdout, exit_status,
                   uncaught, pending_exit, engine_calls, start_time,
                   initial_graph, initial_graph_json, result_df, enriched_kg, output>>
    /\ UNCHANGED load_graph
    /\ UNCHANGED fnVars

ReturnedResultFirst(results, again) == results

\* What capturing_query hands to its caller at line 116: not the sequence
\* it iterated (results) but the one a second execution returns (again).
ReturnedResult(results, again) == again

\* capturing_query, line 116: the second execution and the return.
CapturingQuerySecond ==
    /\ pc = "in_process"
    /\ ~NoCallRunning
    /\ LET g == call[1].graph
           q == call[1].query
           again == original_query(graphs[g].size, q)
       IN  /\ \/ /\ executions' = Append(executions,
                        Invocation(g, q, Len(call_log), Some(again.rows)))
                 /\ call_log' = [call_log EXCEPT ![Len(call_log)].outcome = "returned"]
                 /\ call' = Some([call[1] EXCEPT !.state = "returned",
                                      !.result = Some(ReturnedResult(call[1].results[1],
                                                                     again))])
                 /\ graphs' = [graphs EXCEPT ![g].size = SizeAfter(@, q)]
                 /\ UNCHANGED <<pc, exc>>
              \/ /\ executions' = Append(executions, Invocation(g, q, Len(call_log), None))
                 /\ call_log' = [call_log EXCEPT ![Len(call_log)].outcome = "raised_second"]
                 /\ call' = Some([call[1] EXCEPT !.state = "raised"])
                 /\ QueryRaises(PyError("ParseException", "bad query", "original_query"))
                 /\ UNCHANGED graphs
    /\ UNCHANGED <<stdin, input_data, temp_file, removals, stdout, exit_status,
                   uncaught, pending_exit, engine_calls, start_time,
                   initial_graph, initial_graph_json, result_df, enriched_kg, output>>
    /\ UNCHANGED <<load_graph, queries, clock>>
    /\ UNCHANGED fnVars

\* --------------------------------------------------------------------- main
\* Line 130: json.load(sys.stdin), outside the try block.
ReadRequest ==
    /\ pc = "read"
    /\ IF JsonLoads(stdin) = None
       THEN /\ Propagate(PyError("JSONDecodeError", "Expecting value", "json.load"))
            /\ UNCHANGED input_data
       ELSE /\ input_data' = JsonLoads(stdin)
            /\ pc' = "stage"
            /\ UNCHANGED <<uncaught, exit_status>>
    /\ UNCHANGED <<stdin, temp_file, removals, stdout, exc, pending_exit, engine_calls,
                   start_time,
                   initial_graph, initial_graph_json, result_df, enriched_kg, output>>
    /\ UNCHANGED capVars
    /\ UNCHANGED fnVars

\* Lines 133-135, outside the try block: create the file (delete=False),
\* dump the request into it, close it.  Creating or writing can raise
\* OSError; a file that was created stays on disk.
StageConfig ==
    /\ pc = "stage"
    /\ \/ /\ temp_file' = [created |-> TRUE, exists |-> TRUE,
                           content |-> Some(JsonDumps(input_data[1]))]
          /\ pc' = "initialize"
          /\ UNCHANGED <<uncaught, exit_status>>
       \/ /\ Propagate(PyError("OSError", "No space left on device", "json.dump"))
          /\ temp_file' = [created |-> TRUE, exists |-> TRUE, content |-> None]
       \/ /\ Propagate(PyError("OSError", "No usable temporary directory",
                               "NamedTemporaryFile"))
          /\ UNCHANGED temp_file
    /\ UNCHANGED <<stdin, input_data, removals, stdout, exc, pending_exit, engine_calls,
                   start_time,
                   initial_graph, initial_graph_json, result_df, enriched_kg, output>>
    /\ UNCHANGED capVars
    /\ UNCHANGED fnVars

\* Lines 138-142: enter the try block, take start_time, call initialize.
Initialize ==
    /\ pc = "initialize"
    /\ start_time' = Some(clock)
    /\ engine_calls' = Append(engine_calls, "initialize")
    /\ \/ pc' = "baseline" /\ UNCHANGED exc
       \/ RaiseInTry(PyError("KeyError", "'KG'", "initialize"))
    /\ UNCHANGED <<stdin, input_data, temp_file, removals, stdout, exit_status,
                   uncaught, pending_exit, initial_graph, initial_graph_json, result_df,
                   enriched_kg, output>>
    /\ UNCHANGED capVars
    /\ UNCHANGED fnVars

ParsedGraphViaLoader(n) == patched_load_graph([size |-> n, query |-> "original"])

\* Lines 145-146: the object Graph() builds and parse() fills with the n
\* triples of rdf_data; its query method is the one of the class.
ParsedGraph(n) == [size |-> n, query |-> "original"]

\* Lines 145-147: parse rdf_data into a fresh Graph (not through
\* load_graph) and translate it with limit=100.  n is the number of triples
\* rdf_data holds.
BaselineLoad(n) ==
    /\ pc = "baseline"
    /\ \/ /\ initial_graph' = Some(ParsedGraph(n))
          /\ initial_graph_json' = Some(graph_to_json(MkGraph(n), Some(InitialLimit)))
          /\ pc' = "process_rules"
          /\ UNCHANGED exc
       \/ /\ RaiseInTry(PyError("FileNotFoundError", "no such file", "Graph.parse"))
          /\ UNCHANGED <<initial_graph, initial_graph_json>>
    /\ UNCHANGED <<stdin, input_data, temp_file, removals, stdout, exit_status,
                   uncaught, pending_exit, engine_calls, start_time, result_df,
                   enriched_kg, output>>
    /\ UNCHANGED capVars
    /\ UNCHANGED fnVars

\* Line 150: process_rules is called.
ProcessRulesCall ==
    /\ pc = "process_rules"
    /\ engine_calls' = Append(engine_calls, "process_rules")
    /\ pc' = "in_process"
    /\ UNCHANGED <<stdin, input_data, temp_file, removals, stdout, exit_status, exc,
                   uncaught, pending_exit, start_time,
                   initial_graph, initial_graph_json, result_df,
                   enriched_kg, output>>
    /\ UNCHANGED capVars
    /\ UNCHANGED fnVars

\* process_rules returns the prediction table df and an enriched graph of n
\* triples.
ProcessRulesReturn(df, n) ==
    /\ pc = "in_process"
    /\ NoCallRunning
    /\ result_df' = Some(df)
    /\ enriched_kg' = Some(MkGraph(n))
    /\ pc' = "translate"
    /\ UNCHANGED <<stdin, input_data, temp_file, removals, stdout, exit_status, exc,
                   uncaught, pending_exit, engine_calls, start_time,
                   initial_graph, initial_graph_json, output>>
    /\ UNCHANGED capVars
    /\ UNCHANGED fnVars

\* process_rules raises on its own account.
ProcessRulesRaise ==
    /\ pc = "in_process"
    /\ NoCallRunning
    /\ RaiseInTry(PyError("ValueError", "no rules", "process_rules"))
    /\ UNCHANGED <<stdin, input_data, temp_file, removals, stdout, exit_status,
                   uncaught, pending_exit, engine_calls, start_time,
                   initial_graph, initial_graph_json, result_df, enriched_kg, output>>
    /\ UNCHANGED capVars
    /\ UNCHANGED fnVars

\* The Series iterrows() yields for a row: the cells under the labels.
Series(labels, cells) == [index |-> labels, values |-> cells]

\* row[label] for a label that occurs once in the index.
SeriesGet(row, label) ==
    row.values[CHOOSE k \in 1..Len(row.index) : row.index[k] = label]

RowToTripleWhole(row) == RowDict(row.index, row.values)

\* Lines 161-168: one entry per row of a table that is neither None nor
\* empty, built from the row's subject, predicate and object.
RowToTriple(row) ==
    [subject   |-> SeriesGet(row, "subject"),
     predicate |-> SeriesGet(row, "predicate"),
     object    |-> SeriesGet(row, "object")]

new_triples(df) ==
    IF df # None /\ ~DfEmpty(df[1])
    THEN [i \in 1..Len(df[1].rows) |->
             RowToTriple(Series(df[1].columns, df[1].rows[i]))]
    ELSE <<>>

\* row['subject'] (or predicate, object) raises KeyError in the loop.
RaisesKeyError(df) ==
    /\ df # None
    /\ ~DfEmpty(df[1])
    /\ ~({"subject", "predicate", "object"} \subseteq Range(df[1].columns))

\* The dictionary built at lines 171-210.
SummarySwapped(triples, captured) ==
    [total_predictions     |-> Len(captured),
     queries_executed      |-> Len(triples),
     processing_successful |-> TRUE]

\* The "summary" entry of the output, lines 205-209.
Summary(triples, captured) ==
    [total_predictions     |-> Len(triples),
     queries_executed      |-> Len(captured),
     processing_successful |-> TRUE]

Assemble(predictions_json, triples, initial_json, enriched_json, captured, started, now) ==
    [success               |-> TRUE,
     execution_time        |-> now - started,
     timestamp             |-> now,
     predictions_dataframe |-> predictions_json,
     new_triples           |-> triples,
     graphs                |-> [initial    |-> initial_json,
                                enriched   |-> enriched_json,
                                statistics |->
                                    [initial_triples   |-> initial_json.total_triples,
                                     enriched_triples  |-> enriched_json.total_triples,
                                     predictions_added |-> Len(triples)]],
     sparql_queries        |-> captured,
     output_files          |-> [predictions_folder |-> "Predictions",
                                enriched_kg_path   |-> "kg_EnrichedKG/kg_Enriched_KG.nt",
                                log_file           |-> "logs/full_data.log"],
     summary               |-> Summary(triples, captured)]

\* Lines 155-210: translate the table and the enriched graph, derive the new
\* triples, assemble the output.
Translate ==
    /\ pc = "translate"
    /\ IF RaisesKeyError(result_df[1])
       THEN /\ RaiseInTry(PyError("KeyError", "'subject'", "row['subject']"))
            /\ UNCHANGED output
       ELSE /\ output' = Some(Assemble(dataframe_to_json(result_df[1]),
                                       new_triples(result_df[1]),
                                       initial_graph_json[1],
                                       graph_to_json(enriched_kg[1], Some(EnrichedLimit)),
                                       queries, start_time[1], clock))
            /\ pc' = "emit"
            /\ UNCHANGED exc
    /\ UNCHANGED <<stdin, input_data, temp_file, removals, stdout, exit_status,
                   uncaught, pending_exit, engine_calls, start_time,
                   initial_graph, initial_graph_json, result_df, enriched_kg>>
    /\ UNCHANGED capVars
    /\ UNCHANGED fnVars

\* json.dumps(output) succeeds iff every cell it reaches is serialisable.
Serializable(o) ==
    /\ \A i \in 1..Len(o.predictions_dataframe.data) :
         \A c \in DOMAIN o.predictions_dataframe.data[i] :
            CellSerializable(o.predictions_dataframe.data[i][c])
    /\ \A i \in 1..Len(o.new_triples) :
         \A c \in DOMAIN o.new_triples[i] : CellSerializable(o.new_triples[i][c])

\* Line 212: print(json.dumps(output, indent=2)).  The text is built in
\* full before anything is written.
EmitSuccess ==
    /\ pc = "emit"
    /\ IF Serializable(output[1])
       THEN /\ stdout' = Append(stdout, output[1])
            /\ pc' = "finally"
            /\ UNCHANGED exc
       ELSE /\ RaiseInTry(PyError("TypeError",
                                  "Object of type int64 is not JSON serializable",
                                  "json.dumps"))
            /\ UNCHANGED stdout
    /\ UNCHANGED <<stdin, input_data, temp_file, removals, exit_status, uncaught,
                   pending_exit, engine_calls, start_time,
                   initial_graph, initial_graph_json,
                   result_df, enriched_kg, output>>
    /\ UNCHANGED capVars
    /\ UNCHANGED fnVars

ErrorOutputRepr(e, now) ==
    [success |-> FALSE, error |-> e.type, traceback |-> <<>>, timestamp |-> now]

\* The dictionary built at lines 216-221.
ErrorOutput(e, now) ==
    [success |-> FALSE, error |-> e.msg, traceback |-> FormatExc(e), timestamp |-> now]

\* Lines 214-223: `except Exception`: print the failure envelope, then
\* sys.exit(1), whose SystemExit is pending while the finally clause runs.
ExceptHandler ==
    /\ pc = "except"
    /\ stdout' = Append(stdout, ErrorOutput(exc[1], clock))
    /\ pending_exit' = Some(ExitFailure)
    /\ pc' = "finally"
    /\ UNCHANGED <<stdin, input_data, temp_file, removals, exit_status, exc, uncaught,
                   engine_calls, start_time, initial_graph, initial_graph_json, result_df,
                   enriched_kg, output>>
    /\ UNCHANGED capVars
    /\ UNCHANGED fnVars

ExitStatusZero(pending) == Some(0)

\* The status the process ends with once the finally clause is done: that of
\* the pending SystemExit of line 223, or 0 when main() returns.
ExitStatusAfter(pending) == IF pending = None THEN Some(0) ELSE pending

\* Lines 225-227: the finally clause removes the file if it exists; then
\* main() returns (status 0) or the pending SystemExit ends the process.
Finally ==
    /\ pc = "finally"
    /\ temp_file' = IF temp_file.exists THEN [temp_file EXCEPT !.exists = FALSE]
                    ELSE temp_file
    /\ removals' = removals + 1
    /\ exit_status' = ExitStatusAfter(pending_exit)
    /\ pc' = "exit"
    /\ UNCHANGED <<stdin, input_data, stdout, exc, uncaught, pending_exit,
                   engine_calls, start_time, initial_graph, initial_graph_json, result_df,
                   enriched_kg, output>>
    /\ UNCHANGED capVars
    /\ UNCHANGED fnVars

Next ==
    \/ Install
    \/ ReadRequest
    \/ StageConfig
    \/ Initialize
    \/ \E n \in InitialSizes : BaselineLoad(n)
    \/ ProcessRulesCall
    \/ Len(graphs) < MaxLoads /\ EngineLoadGraph
    \/ \E g \in 1..MaxLoads, q \in QueryObjects, d \in Durations :
          Len(call_log) < MaxCalls /\ CapturingQueryFirst(g, q, d)
    \/ CapturingQuerySecond
    \/ \E df \in Tables, n \in EnrichedSizes : ProcessRulesReturn(df, n)
    \/ ProcessRulesRaise
    \/ Translate
    \/ EmitSuccess
    \/ ExceptHandler
    \/ Finally

Spec == Init /\ [][Next]_vars

\* ------------------------------------------------- the interceptor alone
\* The run has reached process_rules (request "{}", a baseline graph of two
\* triples); from there only the engine's loads and queries are followed.
CaptureInit ==
    /\ stdin = "{}"
    /\ pc = "in_process"
    /\ input_data = JsonLoads("{}")
    /\ temp_file = [created |-> TRUE, exists |-> TRUE,
                    content |-> Some(JsonDumps(JsonLoads("{}")[1]))]
    /\ removals = 0
    /\ stdout = <<>>
    /\ exit_status = None
    /\ exc = None
    /\ uncaught = None
    /\ pending_exit = None
    /\ engine_calls = <<"initialize", "process_rules">>
    /\ load_graph = "patched"
    /\ queries = <<>>
    /\ graphs = <<>>
    /\ call = None
    /\ call_log = <<>>
    /\ executions = <<>>
    /\ clock = 0
    /\ start_time = Some(0)
    /\ initial_graph = Some([size |-> 2, query |-> "original"])
    /\ initial_graph_json = Some(graph_to_json(MkGraph(2), Some(InitialLimit)))
    /\ result_df = None
    /\ enriched_kg = None
    /\ output = None
    /\ FnIdle

\* With the interceptor studied alone every execution takes the same time:
\* nothing in capturing_query depends on how long the query ran.
CaptureDurations == {1}

CaptureNext ==
    \/ Len(graphs) < MaxCaptureLoads /\ EngineLoadGraph
    \/ \E g \in 1..MaxCaptureLoads, q \in QueryObjects, d \in CaptureDurations :
          Len(call_log) < MaxCaptureCalls /\ CapturingQueryFirst(g, q, d)
    \/ CapturingQuerySecond

SpecCapture == CaptureInit /\ [][CaptureNext]_vars

\* ------------------------------------------------ the graph translator alone
\* Every sequence of distinct triple numbers of the given length.
RECURSIVE Arrangements(_, _)
Arrangements(S, len) ==
    IF len = 0 THEN {<<>>}
    ELSE UNION {{Append(a, x) : x \in S \ Range(a)} : a \in Arrangements(S, len - 1)}

HarnessGraphs == {GraphOf(idx) : idx \in UNION {Arrangements(1..MaxTriples, len) :
                                                  len \in 0..MaxTriples}}
HarnessLimits == {None} \cup {Some(n) : n \in 0..MaxLimit}

GraphInit ==
    /\ stdin = "{}"
    /\ RunInit
    /\ fn_graph \in {Some(g) : g \in HarnessGraphs}
    /\ fn_limit \in HarnessLimits
    /\ fn_df = None
    /\ fn_out = None

\* A call graph_to_json(graph, limit); limit None is the default argument.
CallGraphToJson ==
    /\ fn_graph # None
    /\ fn_out = None
    /\ fn_out' = Some(graph_to_json(fn_graph[1], fn_limit))
    /\ UNCHANGED <<fn_graph, fn_limit, fn_df>>
    /\ UNCHANGED runVars
    /\ UNCHANGED capVars

GraphNext == CallGraphToJson

SpecGraph == GraphInit /\ [][GraphNext]_vars

\* ------------------------------------------------ the table translator alone
HarnessLabels == {"subject", "x"}
HarnessCells  == {PyStr("v"), NpInt64(1)}

\* None and every table of up to MaxCols columns (labels may repeat) and up
\* to MaxRows rows, tables without rows or without columns included.
HarnessTables ==
    {None} \cup
    UNION {{Some([columns |-> cols, rows |-> rows]) :
               rows \in UNION {[1..m -> [1..Len(cols) -> HarnessCells]] : m \in 0..MaxRows}} :
           cols \in UNION {[1..k -> HarnessLabels] : k \in 0..MaxCols}}

TableInit ==
    /\ stdin = "{}"
    /\ RunInit
    /\ fn_graph = None
    /\ fn_limit = None
    /\ fn_df \in {Some(df) : df \in HarnessTables}
    /\ fn_out = None

\* A call dataframe_to_json(df).
CallDataframeToJson ==
    /\ fn_df # None
    /\ fn_out = None
    /\ fn_out' = Some(dataframe_to_json(fn_df[1]))
    /\ UNCHANGED <<fn_graph, fn_limit, fn_df>>
    /\ UNCHANGED runVars
    /\ UNCHANGED capVars

TableNext == CallDataframeToJson

SpecTable == TableInit /\ [][TableNext]_vars

\* ================================================================== claims
SuccessKeys == {"success", "execution_time", "timestamp", "predictions_dataframe",
                "new_triples", "graphs", "sparql_queries", "output_files", "summary"}
FailureKeys == {"success", "error", "traceback", "timestamp"}

IsSuccessEnvelope(doc) == DOMAIN doc = SuccessKeys /\ doc.success = TRUE
IsFailureEnvelope(doc) == DOMAIN doc = FailureKeys /\ doc.success = FALSE

Malformed == JsonLoads(stdin) = None

\* C1: on every path of main(), once the process has exited exactly one
\* envelope has been written, of the success shape or of the failure shape,
\* and at no time are there two.
C1_ExactlyOneEnvelope ==
    /\ Len(stdout) <= 1
    /\ pc = "exit" =>
         /\ Len(stdout) = 1
         /\ IsSuccessEnvelope(stdout[1]) \/ IsFailureEnvelope(stdout[1])

\* C2: once the transient file has been created, at process exit it does not
\* exist and the deletion step has run exactly once.
C2_TempFileRemoved ==
    (pc = "exit" /\ temp_file.created) => (~temp_file.exists /\ removals = 1)

\* C3: a malformed request ends in a failure envelope, with no engine
\* capability invoked.
C3_MalformedGivesFailureEnvelope ==
    (pc = "exit" /\ Malformed) =>
        /\ Len(stdout) = 1
        /\ IsFailureEnvelope(stdout[1])
        /\ engine_calls = <<>>

\* C4: a failure raised by initialize, the baseline load, process_rules, or
\* the translation, assembly or serialisation of their results never leaves
\* main() uncaught, and once handled the output holds one failure envelope
\* with the failure's message and a trace naming where it was raised.
C4_EngineFailuresCaught ==
    exc # None =>
        /\ uncaught = None
        /\ pc \in {"except", "finally", "exit"}
        /\ pc \in {"finally", "exit"} =>
             /\ Len(stdout) = 1
             /\ IsFailureEnvelope(stdout[1])
             /\ stdout[1].error = exc[1].msg
             /\ \E k \in DOMAIN stdout[1].traceback : stdout[1].traceback[k] = exc[1].origin
             /\ \E k \in DOMAIN stdout[1].traceback : stdout[1].traceback[k] = exc[1].msg

\* C4 witness: json.dumps of the assembled output raised and the run ended.
C4_Witness ==
    /\ pc = "exit"
    /\ exc # None
    /\ exc[1].origin = "json.dumps"
    /\ Len(stdout) = 1

EmittedSuccess == \E k \in 1..Len(stdout) : stdout[k].success = TRUE

\* C5: the process exits with status 0 iff a success envelope was emitted.
C5_ExitStatusZeroIffSuccess ==
    pc = "exit" =>
        /\ exit_status # None
        /\ exit_status = Some(0) <=> EmittedSuccess

\* C5 witness: a run whose engine call failed has exited with a non-zero
\* status.
C5_Witness ==
    /\ pc = "exit"
    /\ exc # None
    /\ exc[1].origin = "initialize"
    /\ exit_status # None
    /\ exit_status # Some(0)

\* C6: for every limit >= 0 that is given, the triples list has
\* min(limit, total_triples) entries.
C6_TriplesLengthIsMin ==
    (fn_out # None /\ fn_limit # None) =>
        Len(fn_out[1].triples) = Min(fn_limit[1], Len(fn_graph[1].triples))

\* C7: limited_to is the limit that was passed whenever one is given, and
\* the null marker only when none was given.
C7_LimitedToEchoesLimit ==
    fn_out # None => fn_out[1].limited_to = fn_limit

\* C8 as stated: the Nth record holds the query text of the Nth query call
\* made.
C8_NthRecordIsNthCall ==
    /\ Len(queries) <= Len(call_log)
    /\ \A n \in 1..Len(queries) : queries[n].query = QueryStr(call_log[n].query)

Recorded(c) == c.recorded

\* C8 as amended: the Nth record holds the query text of the Nth query call
\* whose first execution and materialisation completed, whichever graphs the
\* calls went to.
C8_NthRecordIsNthCompletedCall ==
    LET done == SelectSeq(call_log, Recorded)
    IN  /\ Len(queries) = Len(done)
        /\ \A n \in 1..Len(queries) : queries[n].query = QueryStr(done[n].query)

\* C8 witness: two recorded calls with different texts went to different
\* graphs.
C8_Witness ==
    /\ Len(queries) = 2
    /\ Len(call_log) = 2
    /\ call_log[1].graph # call_log[2].graph
    /\ queries[1].query # queries[2].query

\* C9: for a query without side effects, the sequence handed to the caller
\* is unconsumed and has as many rows as the result_count of the record
\* appended for that call.
C9_ReturnedMatchesRecordedCount ==
    (call # None /\ call[1].state = "returned" /\ ~HasSideEffects(call[1].query)) =>
        /\ call[1].result # None
        /\ ~call[1].result[1].consumed
        /\ call[1].result[1].rows = queries[Len(queries)].result_count

\* C9 witness: a query without side effects returned rows to its caller.
C9_Witness ==
    /\ call # None
    /\ call[1].state = "returned"
    /\ ~HasSideEffects(call[1].query)
    /\ call[1].result[1].rows > 0
    /\ Len(queries) = 2

\* C10: in a successful run new_triples has one entry per row of the table,
\* the i-th with exactly the keys subject, predicate, object and the i-th
\* row's values, and it is empty when the table is absent or has no rows.
C10_NewTriplesFollowRows ==
    (pc = "exit" /\ EmittedSuccess) =>
        LET df == result_df[1]
            nt == stdout[1].new_triples
        IN  IF df = None THEN nt = <<>>
            ELSE /\ Len(nt) = Len(df[1].rows)
                 /\ \A i \in 1..Len(nt) :
                      /\ DOMAIN nt[i] = {"subject", "predicate", "object"}
                      /\ \A k \in 1..Len(df[1].columns) :
                           df[1].columns[k] \in DOMAIN nt[i] =>
                               nt[i][df[1].columns[k]] = df[1].rows[i][k]

\* C10 witness: a successful run on a table of MaxRows rows that has a column
\* besides subject, predicate and object.
C10_Witness ==
    /\ pc = "exit"
    /\ EmittedSuccess
    /\ result_df[1] # None
    /\ Len(result_df[1][1].rows) = MaxRows
    /\ "rule" \in Range(result_df[1][1].columns)
    /\ Len(stdout[1].new_triples) = MaxRows

\* C11: for a table with at least one row and one column, whatever its
\* column labels, the result's shape is [len(data), len(columns)] and every
\* row of data has exactly the labels of columns as its keys.
C11_ShapeMatchesDataAndColumns ==
    (fn_out # None /\ fn_df[1] # None /\ ~DfEmpty(fn_df[1][1])) =>
        LET out == fn_out[1]
        IN  /\ out.shape[1] = Len(out.data)
            /\ out.shape[2] = Len(out.columns)
            /\ out.shape = <<Len(fn_df[1][1].rows), Len(fn_df[1][1].columns)>>
            /\ out.columns = fn_df[1][1].columns
            /\ \A i \in 1..Len(out.data) : DOMAIN out.data[i] = Range(out.columns)

\* C11 witness: a table of two rows whose two columns carry the same label
\* has been translated.
C11_Witness ==
    /\ fn_out # None
    /\ fn_df[1] # None
    /\ Len(fn_df[1][1].rows) = 2
    /\ Len(fn_df[1][1].columns) = 2
    /\ fn_df[1][1].columns[1] = fn_df[1][1].columns[2]
    /\ Len(fn_out[1].data) = 2

\* C12: for an absent table and for every table without rows, whatever
\* columns it declares, the result has columns [], data [] and shape [0, 0].
C12_EmptyTableGivesEmptyResult ==
    (fn_out # None /\ (fn_df[1] = None \/ Len(fn_df[1][1].rows) = 0)) =>
        /\ fn_out[1].columns = <<>>
        /\ fn_out[1].data = <<>>
        /\ fn_out[1].shape = <<0, 0>>

\* C12 witness: a table with two declared columns and no rows has been
\* translated.
C12_Witness ==
    /\ fn_out # None
    /\ fn_df[1] # None
    /\ Len(fn_df[1][1].rows) = 0
    /\ Len(fn_df[1][1].columns) = 2

\* The object term carries a datatype or a language tag.
CarriesTag(o) ==
    /\ o.kind = "Literal"
    /\ o.datatype # None \/ o.language # None

\* C13 as stated: an emitted triple's object_type is "literal" iff the
\* object term carries a datatype or language tag, and "uri" otherwise.
C13_LiteralIffTagged ==
    fn_out # None /\ fn_graph # None =>
        \A i \in 1..Len(fn_out[1].triples) :
            /\ fn_out[1].triples[i].object_type \in {"literal", "uri"}
            /\ fn_out[1].triples[i].object_type = "literal"
                   <=> CarriesTag(fn_graph[1].triples[i].o)

\* C13 as amended: an emitted triple's object_type is "literal" iff the
\* object term is a Literal, tagged or plain, and "uri" otherwise (a URI
\* reference or a blank node).
C13_LiteralIffLiteralTerm ==
    fn_out # None /\ fn_graph # None =>
        \A i \in 1..Len(fn_out[1].triples) :
            /\ fn_out[1].triples[i].object_type \in {"literal", "uri"}
            /\ fn_out[1].triples[i].object_type = "literal"
                   <=> fn_graph[1].triples[i].o.kind = "Literal"

\* C13 witness: a translated graph held a plain literal, a language-tagged
\* literal, a typed literal, a blank node and a URI as objects.
C13_Witness ==
    /\ fn_out # None
    /\ fn_graph # None
    /\ Len(fn_out[1].triples) = 5
    /\ \E i \in 1..5 : /\ fn_graph[1].triples[i].o.kind = "Literal"
                       /\ ~CarriesTag(fn_graph[1].triples[i].o)
                       /\ fn_out[1].triples[i].object_type = "literal"
    /\ \E i \in 1..5 : /\ fn_graph[1].triples[i].o.kind = "BNode"
                       /\ fn_out[1].triples[i].object_type = "uri"
    /\ \E i \in 1..5 : /\ fn_graph[1].triples[i].o.kind = "Literal"
                       /\ fn_graph[1].triples[i].o.language # None
                       /\ fn_out[1].triples[i].object_type = "literal"

\* The steps of a run in their order; process_rules is entered, then runs.
StepOrder == <<"install", "read", "stage", "initialize", "baseline", "process_rules",
               "in_process", "translate", "emit">>

StepNo(p) == CHOOSE k \in 1..Len(StepOrder) : StepOrder[k] = p

Failed == exc # None \/ uncaught # None

\* One transition of a run, as C14 allows it.
C14_Step ==
    IF Failed
    THEN \* after the first failure: the failure envelope, then the cleanup
         /\ engine_calls' = engine_calls
         /\ UNCHANGED <<load_graph, queries, graphs, call, initial_graph,
                        initial_graph_json, result_df, enriched_kg, output, exc, uncaught>>
         /\ \/ /\ pc = "except" /\ pc' = "finally"
               /\ Len(stdout') = Len(stdout) + 1
               /\ IsFailureEnvelope(stdout'[Len(stdout')])
            \/ /\ pc = "finally" /\ pc' = "exit"
               /\ stdout' = stdout
    ELSE IF pc \in Range(StepOrder)
    THEN \/ \* the step completes: the next step in the order is due
            /\ ~Failed'
            /\ \/ pc' = pc /\ pc = "in_process"
               \/ pc # "emit" /\ pc' = StepOrder[StepNo(pc) + 1]
               \/ pc = "emit" /\ pc' = "finally" /\ Len(stdout') = 1
            /\ pc # "emit" => stdout' = stdout
         \/ \* the step fails: no later step is taken
            /\ Failed'
            /\ pc' \in {"except", "exit"}
            /\ stdout' = stdout
    ELSE \* cleanup after success
         /\ pc = "finally" /\ pc' = "exit"
         /\ ~Failed'
         /\ UNCHANGED <<engine_calls, stdout>>

\* C14: the steps are taken in the order install, read, stage, initialize,
\* baseline load, process_rules, assemble, emit, each only after every
\* earlier one completed; after the first failure no engine capability is
\* invoked and nothing happens but the failure envelope and the cleanup.
C14_StepsInOrderAbandonedOnFailure == [][C14_Step]_vars

\* C14 witness: process_rules failed after initialize and the baseline load
\* completed; the run ended with the failure envelope and the cleanup.
C14_Witness ==
    /\ pc = "exit"
    /\ exc # None
    /\ exc[1].origin = "process_rules"
    /\ engine_calls = <<"initialize", "process_rules">>
    /\ initial_graph # None
    /\ Len(stdout) = 1
    /\ removals = 1

\* The calls of capturing_query with the given outcome.
CallsWith(outcomes) == {i \in 1..Len(call_log) : call_log[i].outcome \in outcomes}

\* C15 as stated: whenever no call is under way, the log holds as many
\* records as calls of capturing_query have completed (returned).
C15_LogLengthIsCompletedCalls ==
    NoCallRunning => Len(queries) = Cardinality(CallsWith({"returned"}))

\* C15: every call whose first execution and materialisation succeeded has
\* appended exactly one record to the one log, whatever graph it was made on:
\* the log length is the number of calls that returned, plus those whose
\* second execution raised, plus the call that is past its append.
C15_LogLengthIsMaterialisedCalls ==
    /\ Len(queries) = Cardinality(CallsWith({"returned", "raised_second", "running"}))
    /\ Cardinality(CallsWith({"returned"})) <= Len(queries)
    /\ \A i \in CallsWith({"running"}) : i = Len(call_log) /\ ~NoCallRunning

\* C15 witness: two graphs were loaded, each received one query; one call
\* returned, the second execution of the other raised; both are in the log.
C15_Witness ==
    /\ Len(graphs) = 2
    /\ Len(call_log) = 2
    /\ call_log[1].graph # call_log[2].graph
    /\ CallsWith({"returned"}) # {}
    /\ CallsWith({"raised_second"}) # {}
    /\ Len(queries) = 2

\* The invocations of the original Graph.query that call number i made.
InvocationsOf(i) == {k \in 1..Len(executions) : executions[k].call = i}

\* The calls of capturing_query that have ended, by return or by exception.
EndedCalls == CallsWith({"returned", "raised_first", "raised_second"})

\* C16 as stated: each call of the wrapper invokes the original query
\* execution exactly twice.
C16_EveryCallExecutesTwice ==
    \A i \in EndedCalls : Cardinality(InvocationsOf(i)) = 2

\* The two invocations of call i: same graph and query argument, the first
\* counted in the record that was appended between them.
TwoExecutionsAroundRecord(i) ==
    /\ Cardinality(InvocationsOf(i)) = 2
    /\ \E k1, k2 \in InvocationsOf(i) :
          /\ k1 < k2
          /\ executions[k1].query = call_log[i].query
          /\ executions[k2].query = call_log[i].query
          /\ executions[k1].graph = executions[k2].graph
          /\ executions[k1].rows # None
          /\ executions[k2].log_len = executions[k1].log_len + 1
          /\ queries[executions[k2].log_len].result_count = executions[k1].rows[1]
          /\ queries[executions[k2].log_len].query = QueryStr(call_log[i].query)

\* C16: each call of the wrapper whose first execution and materialisation
\* succeed invokes the original query execution exactly twice with the same
\* query argument, the record counting the first execution's rows is appended
\* between the two, and a call that returns hands over the unconsumed result
\* of the second execution; a call whose first phase raises invokes it once.
C16_TwoExecutionsReturnSecond ==
    /\ \A i \in CallsWith({"returned", "raised_second"}) : TwoExecutionsAroundRecord(i)
    /\ \A i \in CallsWith({"raised_first", "running"}) : Cardinality(InvocationsOf(i)) = 1
    /\ (call # None /\ call[1].state = "returned") =>
          LET k2 == CHOOSE k \in InvocationsOf(Len(call_log)) :
                        \A j \in InvocationsOf(Len(call_log)) : j <= k
          IN  /\ call[1].result[1].rows = executions[k2].rows[1]
              /\ ~call[1].result[1].consumed

\* C16 witness: a call with a query that changes the graph returned; its two
\* executions yielded different numbers of rows.
C16_Witness ==
    /\ call # None
    /\ call[1].state = "returned"
    /\ call[1].query = "q_effect"
    /\ call[1].result[1].rows # call[1].results[1].rows
    /\ Cardinality(InvocationsOf(Len(call_log))) = 2

\* The step from Initialized to Baseline Captured (lines 145-147).
BaselineStep == pc = "baseline" /\ pc' = "process_rules"

\* C17: the baseline load does not go through the instrumented loader: the
\* step from Initialized to Baseline Captured leaves the capture log (and
\* the graphs the loader handed out, and the engine's calls) unchanged, and
\* the baseline graph's query method is the original one from then on.
C17_BaselineBypassesLoader ==
    [][/\ BaselineStep =>
             /\ queries' = queries
             /\ graphs' = graphs
             /\ engine_calls' = engine_calls
             /\ initial_graph' # None
       /\ initial_graph' # None => initial_graph'[1].query = "original"]_vars

\* C17 witness: the interceptor is installed, the baseline graph is loaded
\* and translated, and the log is still empty.
C17_Witness ==
    /\ pc = "process_rules"
    /\ load_graph = "patched"
    /\ initial_graph # None
    /\ initial_graph[1].size = 2
    /\ initial_graph_json # None
    /\ queries = <<>>

\* C18: in every success envelope the counters agree with the lists:
\* summary.total_predictions = graphs.statistics.predictions_added =
\* len(new_triples), summary.queries_executed = len(sparql_queries), and
\* sparql_queries is the capture log with every record appended since the
\* interceptor was installed, one per call that got past its materialisation.
C18_CountersAgreeWithLists ==
    \A i \in 1..Len(stdout) :
        IsSuccessEnvelope(stdout[i]) =>
            /\ stdout[i].summary.total_predictions = Len(stdout[i].new_triples)
            /\ stdout[i].graphs.statistics.predictions_added = Len(stdout[i].new_triples)
            /\ stdout[i].summary.queries_executed = Len(stdout[i].sparql_queries)
            /\ stdout[i].sparql_queries = queries
            /\ Len(stdout[i].sparql_queries) =
                   Cardinality({c \in 1..Len(call_log) : call_log[c].recorded})

\* C18 witness: a success envelope with two new triples and one captured
\* query.
C18_Witness ==
    /\ EmittedSuccess
    /\ Len(stdout[1].new_triples) = 2
    /\ Len(stdout[1].sparql_queries) = 1

\* ------------------------------------------------- runs with graphs at the caps
\* Runs of main() on a well-formed request whose initial graph and enriched
\* graph hold as many triples as the caps of lines 147 and 158, one fewer
\* and one more.  The engine's own loads and queries are left out: they do
\* not touch either graph.
InitialSizesAtCap == {InitialLimit - 1, InitialLimit, InitialLimit + 1}
EnrichedSizesAtCap == {EnrichedLimit - 1, EnrichedLimit, EnrichedLimit + 1}

SizesInit == stdin = "{}" /\ RunInit /\ FnIdle

SizesNext ==
    \/ Install
    \/ ReadRequest
    \/ StageConfig
    \/ Initialize
    \/ \E n \in InitialSizesAtCap : BaselineLoad(n)
    \/ ProcessRulesCall
    \/ \E df \in Tables, n \in EnrichedSizesAtCap : ProcessRulesReturn(df, n)
    \/ ProcessRulesRaise
    \/ Translate
    \/ EmitSuccess
    \/ ExceptHandler
    \/ Finally

SpecSizes == SizesInit /\ [][SizesNext]_vars

\* C19: in every success envelope graphs.initial.triples has
\* min(100, size of the initial graph) entries and graphs.enriched.triples
\* has min(1000, size of the enriched graph) entries, while
\* graphs.statistics and each graph's total_triples give the full sizes.
C19_TriplesCappedTotalsFull ==
    \A i \in 1..Len(stdout) :
        IsSuccessEnvelope(stdout[i]) =>
            LET g == stdout[i].graphs
                initial_size == initial_graph[1].size
                enriched_size == Len(enriched_kg[1].triples)
            IN  /\ Len(g.initial.triples) = Min(100, initial_size)
                /\ Len(g.enriched.triples) = Min(1000, enriched_size)
                /\ g.initial.total_triples = initial_size
                /\ g.enriched.total_triples = enriched_size
                /\ g.statistics.initial_triples = initial_size
                /\ g.statistics.enriched_triples = enriched_size

\* C19 witness: a success envelope for an initial graph of 101 triples and
\* an enriched graph of 1001 triples, both truncated.
C19_Witness ==
    /\ EmittedSuccess
    /\ initial_graph[1].size = 101
    /\ Len(enriched_kg[1].triples) = 1001
    /\ Len(stdout[1].graphs.initial.triples) = 100
    /\ Len(stdout[1].graphs.enriched.triples) = 1000

\* A step in which call number Len(call_log') of capturing_query ends with
\* the given outcome.
CallEndsWith(outcome) ==
    /\ call_log' # call_log
    /\ call_log'[Len(call_log')].outcome = outcome

\* C20: when the first execution or the materialisation raises, the log is
\* unchanged and the exception leaves the wrapper; when only the second
\* execution raises, the exception leaves the wrapper too and the record
\* appended for the first execution is still the last one of the log.
C20_RaiseLeavesLogAsItIs ==
    [][/\ CallEndsWith("raised_first") =>
             /\ queries' = queries
             /\ call'[1].state = "raised"
             /\ ~call_log'[Len(call_log')].recorded
       /\ CallEndsWith("raised_second") =>
             /\ queries' = queries
             /\ call'[1].state = "raised"
             /\ Len(queries') >= 1
             /\ queries'[Len(queries')].query = QueryStr(call'[1].query)
             /\ call_log'[Len(call_log')].recorded]_vars

\* C20 witness: the first call raised in its first execution and left no
\* record, the second call raised in its second execution and left one.
C20_Witness ==
    /\ Len(call_log) = 2
    /\ call_log[1].outcome = "raised_first"
    /\ call_log[2].outcome = "raised_second"
    /\ call # None
    /\ call[1].state = "raised"
    /\ Len(queries) = 1
    /\ queries[1].query = QueryStr(call_log[2].query)

====
